---- MODULE Spec2Model ----
(***************************************************************************)
(* PCI configuration mechanism #1 (ports 0xCF8/0xCFC) of the pci crate:    *)
(* PciFunction (function.rs), PciDevice (device.rs), PciBus (bus.rs) and   *)
(* PciRootComplex (pci.rs).                                                *)
(*                                                                         *)
(* Machine integers (u8, u16, u32) are the sets of their one bits, so a    *)
(* u32 is a subset of 0..31: and/or/not are set operations, a shift moves  *)
(* the bit positions and drops what leaves the word.  Indexes (usize       *)
(* register, offset, bus, device and function numbers) are naturals.       *)
(* Option<T> is a sequence of length 0 (None) or 1 (Some).                 *)
(***************************************************************************)
EXTENDS Integers, FiniteSets, Sequences

VARIABLES
    rc,        \* the PciRootComplex: [bus, config_address]
    last,      \* the last call made and what it returned
    panicked,  \* a call has panicked (debug build, arithmetic overflow)
    threads    \* the concurrent callers: what each is doing and holds

vars == <<rc, last, panicked, threads>>

---------------------------------------------------------------------------
(* Machine words *)

WORD_BITS == 0..31

RECURSIVE NatOf(_)
\* The number a word of at most 31 one bits stands for.
NatOf(x) ==
    IF x = {} THEN 0
    ELSE LET i == CHOOSE j \in x : TRUE IN 2^i + NatOf(x \ {i})

\* The word of a natural below 2^31.
U(n) == {i \in 0..30 : (n \div 2^i) % 2 = 1}

And(x, y) == x \cap y
Or(x, y) == x \cup y
Not(x) == WORD_BITS \ x
\* x << n and x >> n of a u32, for n < 32.
Shl(x, n) == {i + n : i \in x} \cap WORD_BITS
Shr(x, n) == {i - n : i \in {j \in x : j >= n}}
AsU8(x) == x \cap (0..7)
AsU16(x) == x \cap (0..15)

None == << >>
Some(x) == <<x>>
IsSome(o) == Len(o) = 1

\* utils::byte_order::read_le_u16 / read_le_u32 over a slice of bytes.
read_le_u16(data) == Or(data[1], Shl(data[2], 8))
read_le_u32(data) ==
    Or(Or(data[1], Shl(data[2], 8)), Or(Shl(data[3], 16), Shl(data[4], 24)))

\* u32::to_le_bytes, as the tests of function.rs use it.
to_le_bytes(v) == [i \in 1..4 |-> AsU8(Shr(v, (i - 1) * 8))]

---------------------------------------------------------------------------
(* function.rs *)

CONFIGURATION_HEADER_SIZE == 16
CAPABILITY_REGISTERS_SIZE == 48
EXTENDED_CONFIGURATION_SIZE == 960
CONFIGURATION_SPACE_SIZE ==
    CONFIGURATION_HEADER_SIZE + CAPABILITY_REGISTERS_SIZE
        + EXTENDED_CONFIGURATION_SIZE

VENDOR_ID_REGISTER == 0
VENDOR_ID_OFFSET == 0
DEVICE_ID_REGISTER == 0
DEVICE_ID_OFFSET == 2
COMMAND_REGISTER == 1
COMMAND_OFFSET == 0
STATUS_REGISTER == 1
STATUS_OFFSET == 2
CLASS_CODE_REGISTER == 2
REVISION_ID_REGISTER == 2
REVISION_ID_OFFSET == 0
HEADER_TYPE_REGISTER == 3
HEADER_TYPE_OFFSET == 2
SUBSYSTEM_ID_REGISTER == 11
SUBSYSTEM_ID_OFFSET == 2
SUBSYSTEM_VENDOR_ID_REGISTER == 11
SUBSYSTEM_VENDOR_ID_OFFSET == 0

\* 0x1D94 and 0x1452
VENDOR_ID_DUMMY_HOST_BRIDGE == U(7572)
DEVICE_ID_DUMMY_HOST_BRIDGE == U(5202)
\* PciClassCode::HostBridge = 0x06_00_00_00
ClassCodeHostBridge == U(100663296)

\* Vec::get / Vec::get_mut: the index is in the vector or there is nothing.
InSpace(self, register) == register \in DOMAIN self.configuration_space

read_configuration_byte(self, register, offset) ==
    IF offset > 3 THEN None
    ELSE IF InSpace(self, register)
         THEN Some(AsU8(Shr(self.configuration_space[register], offset * 8)))
         ELSE None

read_configuration_word(self, register, offset) ==
    IF offset > 2 THEN None
    ELSE IF InSpace(self, register)
         THEN Some(AsU16(Shr(self.configuration_space[register], offset * 8)))
         ELSE None

read_configuration_dword(self, register) ==
    IF InSpace(self, register)
    THEN Some(self.configuration_space[register])
    ELSE None

\* A write that forgets to clear the byte lane first.
MutWriteByteNoClear(self, register, offset, data) ==
    IF offset > 3 \/ ~InSpace(self, register) THEN self
    ELSE [self EXCEPT !.configuration_space[register] =
            Or(@, Shl(data, offset * 8))]

write_configuration_byte(self, register, offset, data) ==
    IF offset > 3 THEN self
    ELSE IF InSpace(self, register)
         THEN [self EXCEPT !.configuration_space[register] =
                 Or(And(@, Not(Shl(U(255), offset * 8))),
                    Shl(data, offset * 8))]
         ELSE self

\* A word write that takes the offset for a half-word selector.
MutWriteWordHalfSelector(self, register, offset, data) ==
    IF offset > 2 \/ ~InSpace(self, register) THEN self
    ELSE [self EXCEPT !.configuration_space[register] =
            Or(And(@, Not(Shl(U(65535), offset * 16))),
               Shl(data, offset * 16))]

\* A word write that rejects byte offset 2.
MutWriteWordRejectTwo(self, register, offset, data) ==
    IF offset > 1 \/ ~InSpace(self, register) THEN self
    ELSE [self EXCEPT !.configuration_space[register] =
            Or(And(@, Not(Shl(U(65535), offset * 8))),
               Shl(data, offset * 8))]

write_configuration_word(self, register, offset, data) ==
    IF offset > 2 THEN self
    ELSE IF InSpace(self, register)
         THEN [self EXCEPT !.configuration_space[register] =
                 Or(And(@, Not(Shl(U(65535), offset * 8))),
                    Shl(data, offset * 8))]
         ELSE self

\* A dword write that wraps the register index around the space.
MutWriteDwordWraps(self, register, data) ==
    [self EXCEPT !.configuration_space[register % CONFIGURATION_SPACE_SIZE] =
        data]

write_configuration_dword(self, register, data) ==
    IF InSpace(self, register)
    THEN [self EXCEPT !.configuration_space[register] = data]
    ELSE self

\* PciFunction::new; header_type is "Type0" or "Type1".
PciFunction_new(number, device_id, vendor_id, class_code, revision_id, header_type, subsystem_id, subsystem_vendor_id) ==
    LET f0 == [number |-> number,
               configuration_space |->
                   [i \in 0..(CONFIGURATION_SPACE_SIZE - 1) |-> {}]]
        f1 == write_configuration_word(f0, DEVICE_ID_REGISTER,
                                       DEVICE_ID_OFFSET, device_id)
        f2 == write_configuration_word(f1, VENDOR_ID_REGISTER,
                                       VENDOR_ID_OFFSET, vendor_id)
        f3 == write_configuration_word(f2, COMMAND_REGISTER,
                                       COMMAND_OFFSET, U(65535))
        f4 == write_configuration_word(f3, STATUS_REGISTER,
                                       STATUS_OFFSET, U(65535))
        f5 == write_configuration_dword(f4, CLASS_CODE_REGISTER, class_code)
        f6 == write_configuration_byte(f5, REVISION_ID_REGISTER,
                                       REVISION_ID_OFFSET, revision_id)
    IN  IF header_type = "Type0"
        THEN LET g1 == write_configuration_byte(f6, HEADER_TYPE_REGISTER,
                                                HEADER_TYPE_OFFSET, U(0))
                 g2 == write_configuration_word(g1, SUBSYSTEM_ID_REGISTER,
                                                SUBSYSTEM_ID_OFFSET,
                                                subsystem_id)
             IN  write_configuration_word(g2, SUBSYSTEM_VENDOR_ID_REGISTER,
                                          SUBSYSTEM_VENDOR_ID_OFFSET,
                                          subsystem_vendor_id)
        ELSE write_configuration_byte(f6, HEADER_TYPE_REGISTER,
                                      HEADER_TYPE_OFFSET, U(1))

\* A dummy host bridge built with the two IDs in each other's place.
MutDummyIdsSwapped(number) ==
    PciFunction_new(number, VENDOR_ID_DUMMY_HOST_BRIDGE,
                    DEVICE_ID_DUMMY_HOST_BRIDGE, ClassCodeHostBridge,
                    U(0), "Type0", U(0), U(0))

PciFunction_new_dummy_host_bridge(number) ==
    PciFunction_new(number, DEVICE_ID_DUMMY_HOST_BRIDGE,
                    VENDOR_ID_DUMMY_HOST_BRIDGE, ClassCodeHostBridge,
                    U(0), "Type0", U(0), U(0))

---------------------------------------------------------------------------
(* HashMap<usize, Arc<Mutex<T>>>: a function from the keys present. *)

EmptyMap == [k \in {} |-> {}]
ContainsKey(m, k) == k \in DOMAIN m
Get(m, k) == IF k \in DOMAIN m THEN Some(m[k]) ELSE None
Insert(m, k, v) == [x \in DOMAIN m \cup {k} |-> IF x = k THEN v ELSE m[x]]
Remove(m, k) == [x \in DOMAIN m \ {k} |-> m[x]]

\* The guard taken by lock() on a node of the tree.
Guard(kind, node) == <<kind, node.number>>

---------------------------------------------------------------------------
(* device.rs *)

MAX_FUNCTION_NUMBER == 8

PciDevice_new(number) == [number |-> number, functions |-> EmptyMap]

\* Result<()>: the device afterwards and Ok or the error.
add_function(self, function) ==
    IF function.number >= MAX_FUNCTION_NUMBER
    THEN [self |-> self, result |-> "InvalidPciFunctionNumber"]
    ELSE IF ContainsKey(self.functions, function.number)
    THEN [self |-> self, result |-> "AlreadyInUsePciFunctionSlot"]
    ELSE [self |-> [self EXCEPT !.functions =
                       Insert(@, function.number, function)],
          result |-> "Ok"]

PciDevice_new_dummy_host_bridge(number) ==
    add_function(PciDevice_new(number),
                 PciFunction_new_dummy_host_bridge(0)).self

get_function(self, function) == Get(self.functions, function)

remove_function(self, function) ==
    [self |-> [self EXCEPT !.functions = Remove(@, function)],
     removed |-> Get(self.functions, function)]

\* PciDevice::read_configuration_register: the value and the guards taken.
DeviceRead(self, function, register) ==
    IF IsSome(get_function(self, function))
    THEN [val |-> read_configuration_dword(self.functions[function], register),
          guards |-> <<Guard("function", self.functions[function])>>]
    ELSE [val |-> None, guards |-> << >>]

\* A device write that adds the byte offset to the register index.
MutDeviceWriteOffsetIndexed(self, function, register, offset, data) ==
    IF offset + Len(data) > 4 THEN self
    ELSE IF IsSome(get_function(self, function))
    THEN [self EXCEPT !.functions[function] =
            CASE Len(data) = 1 ->
                   write_configuration_byte(@, register + offset, offset,
                                            data[1])
              [] Len(data) = 2 ->
                   write_configuration_word(@, register + offset, offset,
                                            read_le_u16(data))
              [] Len(data) = 4 ->
                   write_configuration_dword(@, register, read_le_u32(data))
              [] OTHER -> @]
    ELSE self

\* A device write that aligns a word to a half of the register.
MutDeviceWriteWordAligned(self, function, register, offset, data) ==
    IF offset + Len(data) > 4 THEN self
    ELSE IF IsSome(get_function(self, function))
    THEN [self EXCEPT !.functions[function] =
            CASE Len(data) = 1 ->
                   write_configuration_byte(@, register, offset, data[1])
              [] Len(data) = 2 ->
                   write_configuration_word(@, register, 2 * (offset \div 2),
                                            read_le_u16(data))
              [] Len(data) = 4 ->
                   write_configuration_dword(@, register, read_le_u32(data))
              [] OTHER -> @]
    ELSE self

\* PciDevice::write_configuration_register: the device afterwards.
DeviceWrite(self, function, register, offset, data) ==
    IF offset + Len(data) > 4 THEN self
    ELSE IF IsSome(get_function(self, function))
    THEN [self EXCEPT !.functions[function] =
            CASE Len(data) = 1 ->
                   write_configuration_byte(@, register, offset, data[1])
              [] Len(data) = 2 ->
                   write_configuration_word(@, register, offset,
                                            read_le_u16(data))
              [] Len(data) = 4 ->
                   write_configuration_dword(@, register, read_le_u32(data))
              [] OTHER -> @]
    ELSE self

---------------------------------------------------------------------------
(* bus.rs *)

MAX_BUS_NUMBER == 256
MAX_DEVICE_NUMBER == 32

PciBus_new(number) ==
    [number |-> number, buses |-> EmptyMap, devices |-> EmptyMap]

add_bus(self, bus) ==
    IF bus.number >= MAX_BUS_NUMBER
    THEN [self |-> self, result |-> "InvalidPciBusNumber"]
    ELSE IF ContainsKey(self.buses, bus.number)
    THEN [self |-> self, result |-> "AlreadyInUsePciBusSlot"]
    ELSE [self |-> [self EXCEPT !.buses = Insert(@, bus.number, bus)],
          result |-> "Ok"]

\* A lookup that finds no bridge.
MutGetBusNone(self, bus) == None

get_bus(self, bus) == Get(self.buses, bus)

\* An add that replaces the occupant of a slot in use.
MutAddDeviceReplaces(self, device) ==
    IF device.number >= MAX_DEVICE_NUMBER
    THEN [self |-> self, result |-> "InvalidPciDeviceNumber"]
    ELSE [self |-> [self EXCEPT !.devices = Insert(@, device.number, device)],
          result |-> IF ContainsKey(self.devices, device.number)
                     THEN "AlreadyInUsePciDeviceSlot" ELSE "Ok"]

\* An add_device that wraps the device number into the slots.
MutAddDeviceWrapsSlot(self, device) ==
    IF ContainsKey(self.devices, device.number % MAX_DEVICE_NUMBER)
    THEN [self |-> self, result |-> "AlreadyInUsePciDeviceSlot"]
    ELSE [self |-> [self EXCEPT !.devices =
                       Insert(@, device.number % MAX_DEVICE_NUMBER, device)],
          result |-> "Ok"]

add_device(self, device) ==
    IF device.number >= MAX_DEVICE_NUMBER
    THEN [self |-> self, result |-> "InvalidPciDeviceNumber"]
    ELSE IF ContainsKey(self.devices, device.number)
    THEN [self |-> self, result |-> "AlreadyInUsePciDeviceSlot"]
    ELSE [self |-> [self EXCEPT !.devices = Insert(@, device.number, device)],
          result |-> "Ok"]

get_device(self, device) == Get(self.devices, device)

\* A remove_bus that hands the bus back and leaves it in the map.
MutRemoveBusKeeps(self, bus) ==
    [self |-> self, removed |-> Get(self.buses, bus)]

remove_bus(self, bus) ==
    [self |-> [self EXCEPT !.buses = Remove(@, bus)],
     removed |-> Get(self.buses, bus)]

\* A removal that hands the device out and leaves it in the map.
MutRemoveDeviceKeeps(self, device) ==
    [self |-> self, removed |-> Get(self.devices, device)]

remove_device(self, device) ==
    [self |-> [self EXCEPT !.devices = Remove(@, device)],
     removed |-> Get(self.devices, device)]

RECURSIVE MutBusReadChildFirst(_, _, _, _, _)
\* A read that looks among the child buses before it looks at itself.
MutBusReadChildFirst(self, bus, device, function, register) ==
    IF IsSome(get_bus(self, bus))
    THEN LET bridge == get_bus(self, bus)[1]
             got == MutBusReadChildFirst(bridge, bus, device, function,
                                         register)
         IN  [val |-> got.val,
              guards |-> <<Guard("bus", bridge)>> \o got.guards]
    ELSE IF bus = self.number /\ IsSome(get_device(self, device))
    THEN LET dev == get_device(self, device)[1]
             got == DeviceRead(dev, function, register)
         IN  [val |-> got.val,
              guards |-> <<Guard("device", dev)>> \o got.guards]
    ELSE [val |-> None, guards |-> << >>]

RECURSIVE BusRead(_, _, _, _, _)
\* PciBus::read_configuration_register: the value and the guards taken.
BusRead(self, bus, device, function, register) ==
    IF bus = self.number
    THEN IF IsSome(get_device(self, device))
         THEN LET dev == get_device(self, device)[1]
                  got == DeviceRead(dev, function, register)
              IN  [val |-> got.val,
                   guards |-> <<Guard("device", dev)>> \o got.guards]
         ELSE [val |-> None, guards |-> << >>]
    ELSE IF IsSome(get_bus(self, bus))
         THEN LET bridge == get_bus(self, bus)[1]
                  got == BusRead(bridge, bus, device, function, register)
              IN  [val |-> got.val,
                   guards |-> <<Guard("bus", bridge)>> \o got.guards]
         ELSE [val |-> None, guards |-> << >>]

RECURSIVE BusWrite(_, _, _, _, _, _, _)
\* PciBus::write_configuration_register: the bus afterwards.
BusWrite(self, bus, device, function, register, offset, data) ==
    IF bus = self.number
    THEN IF IsSome(get_device(self, device))
         THEN [self EXCEPT !.devices[device] =
                 DeviceWrite(@, function, register, offset, data)]
         ELSE self
    ELSE IF IsSome(get_bus(self, bus))
         THEN [self EXCEPT !.buses[bus] =
                 BusWrite(@, bus, device, function, register, offset, data)]
         ELSE self

\* A traversal is followed for at most this many calls.
MaxSteps == 4

RECURSIVE MutVisitedRetriesSelf(_, _, _, _)
\* A traversal that calls the bus it is on again in place of the bridge.
MutVisitedRetriesSelf(self, path, bus, steps) ==
    IF steps = 0 THEN [nodes |-> << >>, returned |-> FALSE]
    ELSE IF bus = self.number THEN [nodes |-> <<path>>, returned |-> TRUE]
    ELSE IF IsSome(get_bus(self, bus))
    THEN LET rest == MutVisitedRetriesSelf(self, path, bus, steps - 1)
         IN  [nodes |-> <<path>> \o rest.nodes, returned |-> rest.returned]
    ELSE [nodes |-> <<path>>, returned |-> TRUE]

RECURSIVE Visited(_, _, _, _)
\* The calls of read_configuration_register or write_configuration_register
\* that one call on the bus at `path` makes, itself included: the paths of
\* the buses they run on, and whether the last of them returned within
\* `steps` calls.
Visited(self, path, bus, steps) ==
    IF steps = 0 THEN [nodes |-> << >>, returned |-> FALSE]
    ELSE IF bus = self.number THEN [nodes |-> <<path>>, returned |-> TRUE]
    ELSE IF IsSome(get_bus(self, bus))
    THEN LET rest == Visited(get_bus(self, bus)[1], Append(path, bus), bus,
                             steps - 1)
         IN  [nodes |-> <<path>> \o rest.nodes, returned |-> rest.returned]
    ELSE [nodes |-> <<path>>, returned |-> TRUE]

---------------------------------------------------------------------------
(* pci.rs *)

OFFSET_ADDRESS == 0
OFFSET_ADDRESS_END == 3
OFFSET_DATA == 4
OFFSET_DATA_END == 7

ALL_ONES == WORD_BITS
ENABLE_BIT == {31}

BUS_NUMBER_OFFSET == 16
BUS_NUMBER_MASK == U(255)
\* A device field decoded one bit too high.
MutDeviceNumberOffset == 11 + 1
DEVICE_NUMBER_OFFSET == 11
DEVICE_NUMBER_MASK == U(31)
FUNCTION_NUMBER_OFFSET == 8
FUNCTION_NUMBER_MASK == U(7)
REGISTER_NUMBER_OFFSET == 2
\* A register field two bits too wide (0xFF for 0x3F).
MutRegisterMaskWide == U(255)
REGISTER_NUMBER_MASK == U(63)

PciRootComplex_new ==
    [bus |-> add_device(PciBus_new(0), PciDevice_new_dummy_host_bridge(0)).self,
     config_address |-> {}]

\* A 2-byte write at offset 2 shifts a u32 by 32: a panic where overflow
\* checks are compiled in, a shift by 32 mod 32 = 0 where they are not.
SetAddressOverflows(offset, data) ==
    offset + Len(data) <= 4 /\ Len(data) = 2 /\ offset * 16 >= 32

\* PciRootComplex::set_configuration_address, without overflow checks.
set_configuration_address(self, offset, data) ==
    IF offset + Len(data) > 4 THEN self
    ELSE IF Len(data) \notin {1, 2, 4} THEN self
    ELSE LET mask == CASE Len(data) = 1 -> Shl(U(255), offset * 8)
                       [] Len(data) = 2 -> U(65535)
                       [] Len(data) = 4 -> ALL_ONES
             value == CASE Len(data) = 1 -> Shl(data[1], offset * 8)
                        [] Len(data) = 2 ->
                             Shl(read_le_u16(data), (offset * 16) % 32)
                        [] Len(data) = 4 -> read_le_u32(data)
         IN  [self EXCEPT !.config_address = Or(And(@, Not(mask)), value)]

parse_configuration_address(self) ==
    <<NatOf(And(Shr(self.config_address, BUS_NUMBER_OFFSET), BUS_NUMBER_MASK)),
      NatOf(And(Shr(self.config_address, DEVICE_NUMBER_OFFSET), DEVICE_NUMBER_MASK)),
      NatOf(And(Shr(self.config_address, FUNCTION_NUMBER_OFFSET), FUNCTION_NUMBER_MASK)),
      NatOf(And(Shr(self.config_address, REGISTER_NUMBER_OFFSET), REGISTER_NUMBER_MASK))>>

Enabled(self) == And(self.config_address, ENABLE_BIT) # {}

\* A read that answers zero for an absent target.
MutReadSpaceAbsentZero(self) ==
    IF ~Enabled(self) THEN [val |-> ALL_ONES, guards |-> << >>]
    ELSE LET a == parse_configuration_address(self)
             got == BusRead(self.bus, a[1], a[2], a[3], a[4])
         IN  [val |-> IF IsSome(got.val) THEN got.val[1] ELSE {},
              guards |-> <<Guard("bus", self.bus)>> \o got.guards]

\* A read that does not probe the enable bit.
MutReadSpaceNoEnable(self) ==
    LET a == parse_configuration_address(self)
        got == BusRead(self.bus, a[1], a[2], a[3], a[4])
    IN  [val |-> IF IsSome(got.val) THEN got.val[1] ELSE ALL_ONES,
         guards |-> <<Guard("bus", self.bus)>> \o got.guards]

\* PciRootComplex::read_configuration_space: the dword and the guards taken.
read_configuration_space(self) ==
    IF ~Enabled(self) THEN [val |-> ALL_ONES, guards |-> << >>]
    ELSE LET a == parse_configuration_address(self)
             got == BusRead(self.bus, a[1], a[2], a[3], a[4])
         IN  [val |-> IF IsSome(got.val) THEN got.val[1] ELSE ALL_ONES,
              guards |-> <<Guard("bus", self.bus)>> \o got.guards]

\* A write that does not probe the enable bit.
MutWriteSpaceNoEnable(self, offset, data) ==
    IF offset + Len(data) > 4 THEN self
    ELSE LET a == parse_configuration_address(self)
         IN  [self EXCEPT !.bus =
                 BusWrite(@, a[1], a[2], a[3], a[4], offset, data)]

\* A write that stores the bytes of an oversize buffer that fit.
MutWriteSpaceTruncates(self, offset, data) ==
    IF offset > 3 \/ ~Enabled(self) THEN self
    ELSE LET a == parse_configuration_address(self)
             fit == IF offset + Len(data) > 4
                    THEN SubSeq(data, 1, 4 - offset) ELSE data
         IN  [self EXCEPT !.bus =
                 BusWrite(@, a[1], a[2], a[3], a[4], offset, fit)]

\* PciRootComplex::write_configuration_space.
write_configuration_space(self, offset, data) ==
    IF offset + Len(data) > 4 THEN self
    ELSE IF ~Enabled(self) THEN self
    ELSE LET a == parse_configuration_address(self)
         IN  [self EXCEPT !.bus =
                 BusWrite(@, a[1], a[2], a[3], a[4], offset, data)]

\* A read that serialises the dword from its byte 0 whatever the offset.
MutReadFromByteZero(self, offset, len) ==
    LET got == IF offset \in OFFSET_ADDRESS..OFFSET_ADDRESS_END
               THEN [val |-> self.config_address, guards |-> << >>]
               ELSE IF offset \in OFFSET_DATA..OFFSET_DATA_END
               THEN read_configuration_space(self)
               ELSE [val |-> ALL_ONES, guards |-> << >>]
        start == offset % 4
    IN  [data |-> IF start + len <= 4
                  THEN [i \in 1..len |-> AsU8(Shr(got.val, (i - 1) * 8))]
                  ELSE [i \in 1..len |-> U(255)],
         guards |-> got.guards]

\* BusDevice::read for PciRootComplex: the buffer of len bytes afterwards.
Read(self, offset, len) ==
    LET got == IF offset \in OFFSET_ADDRESS..OFFSET_ADDRESS_END
               THEN [val |-> self.config_address, guards |-> << >>]
               ELSE IF offset \in OFFSET_DATA..OFFSET_DATA_END
               THEN read_configuration_space(self)
               ELSE [val |-> ALL_ONES, guards |-> << >>]
        start == offset % 4
        end == start + len
    IN  [data |-> IF end <= 4
                  THEN [i \in 1..len |-> AsU8(Shr(got.val, (start + i - 1) * 8))]
                  ELSE [i \in 1..len |-> U(255)],
         guards |-> got.guards]

\* A write that takes the data port for the address port.
MutWriteDataToAddress(self, offset, data) ==
    IF offset \in OFFSET_ADDRESS..OFFSET_DATA_END
    THEN set_configuration_address(self, offset % 4, data)
    ELSE self

\* BusDevice::write for PciRootComplex, without overflow checks.
Write(self, offset, data) ==
    IF offset \in OFFSET_ADDRESS..OFFSET_ADDRESS_END
    THEN set_configuration_address(self, offset, data)
    ELSE IF offset \in OFFSET_DATA..OFFSET_DATA_END
    THEN write_configuration_space(self, offset - 4, data)
    ELSE self

\* BusDevice::write reaches the overflowing shift.
WriteOverflows(offset, data) ==
    /\ offset \in OFFSET_ADDRESS..OFFSET_ADDRESS_END
    /\ SetAddressOverflows(offset, data)

---------------------------------------------------------------------------
(* The tree below the root complex and the calls made on it *)

\* The chain of bridges built below bus 0 is at most this deep.
MaxBusDepth == 2

RECURSIVE BusAt(_, _)
\* The bus reached from `root` by get_bus along `path` (child bus numbers).
BusAt(root, path) ==
    IF path = << >> THEN root ELSE BusAt(root.buses[Head(path)], Tail(path))

RECURSIVE HasBusAt(_, _)
\* Every get_bus along `path` finds a bus.
HasBusAt(root, path) ==
    IF path = << >> THEN TRUE
    ELSE IF ContainsKey(root.buses, Head(path))
         THEN HasBusAt(root.buses[Head(path)], Tail(path))
         ELSE FALSE

RECURSIVE WithBusAt(_, _, _)
\* `root` with the bus reached by get_mut_bus along `path` replaced.
WithBusAt(root, path, new) ==
    IF path = << >> THEN new
    ELSE [root EXCEPT !.buses[Head(path)] = WithBusAt(@, Tail(path), new)]

RECURSIVE BusPaths(_)
\* The path of every bus of the tree.
BusPaths(root) ==
    {<< >>} \cup UNION {{<<n>> \o p : p \in BusPaths(root.buses[n])}
                         : n \in DOMAIN root.buses}

RECURSIVE ChainPath(_)
\* The path <<1, ..., k>> of bridge k in a chain below bus 0.
ChainPath(k) == IF k = 0 THEN << >> ELSE Append(ChainPath(k - 1), k)

\* The bridges the setup code attaches: bus k below bus k - 1.
AddBusInputs == {<<ChainPath(k - 1), k>> : k \in 1..MaxBusDepth}
\* The devices the setup code attaches: device 2 on every bridge.
AddDeviceInputs == {<<ChainPath(k), 2>> : k \in 1..MaxBusDepth}

\* The config addresses the guest writes whole: enable, bus, device,
\* function, register.
Address(enable, bus, device, function, register) ==
    Or(Or(IF enable THEN ENABLE_BIT ELSE {}, Shl(U(bus), 16)),
       Or(Or(Shl(U(device), 11), Shl(U(function), 8)), Shl(U(register), 2)))

\* Bits 30:24 and 1:0 of a config address name nothing.
RESERVED_BITS == (24..30) \cup {0, 1}

GuestAddresses ==
    {Address(TRUE, 0, 0, 0, 1), Address(TRUE, 1, 2, 0, 1),
     Address(TRUE, 2, 2, 0, 1), Address(TRUE, 5, 0, 0, 0),
     Address(TRUE, 0, 1, 0, 1), Address(TRUE, 0, 0, 1, 1),
     Address(FALSE, 1, 2, 0, 1), WORD_BITS \ ENABLE_BIT,
     Or(Address(TRUE, 0, 0, 0, 1), RESERVED_BITS)}

\* 0x12345678, little endian
DataDword == to_le_bytes(U(305419896))

\* The data port writes the guest makes: a slice of DataDword at its place,
\* and the malformed shapes.
GuestDataWrites ==
    {<<4, DataDword>>, <<5, SubSeq(DataDword, 2, 3)>>, <<6, DataDword>>,
     <<4, SubSeq(DataDword, 1, 3)>>}

\* The reads the guest makes: whole and partial, a span that crosses the
\* sub-window and an offset outside the window.
GuestReads == {<<0, 4>>, <<4, 4>>, <<5, 2>>, <<6, 4>>, <<8, 4>>}

\* The sub-dword shapes of an address port write.
AddressBytes == {<<U(128)>>, <<U(205), U(171)>>, <<U(1), U(2), U(3)>>}

---------------------------------------------------------------------------
(* Actions *)

\* The callers that share the tree.
NumThreads == 2
Threads == 1..NumThreads
Idle == [pc |-> "idle", wrote |-> FALSE]

Init ==
    /\ rc = PciRootComplex_new
    /\ last = [op |-> "new"]
    /\ panicked = FALSE
    /\ threads = [t \in Threads |-> Idle]

\* BusDevice::write(offset, data)
PortWrite(offset, data) ==
    /\ ~panicked
    /\ last' = [op |-> "write", offset |-> offset, data |-> data]
    /\ IF WriteOverflows(offset, data)
       THEN \/ panicked' = TRUE /\ rc' = rc
            \/ panicked' = FALSE /\ rc' = Write(rc, offset, data)
       ELSE panicked' = FALSE /\ rc' = Write(rc, offset, data)
    /\ UNCHANGED threads

\* BusDevice::read(offset, data) with a buffer of len bytes
PortRead(offset, len) ==
    /\ ~panicked
    /\ LET got == Read(rc, offset, len)
       IN  last' = [op |-> "read", offset |-> offset, len |-> len,
                    data |-> got.data, guards |-> got.guards]
    /\ UNCHANGED <<rc, panicked, threads>>

\* add_bus(PciBus::new(number)) on the bus at `path`
AddBus(path, number) ==
    /\ ~panicked
    /\ HasBusAt(rc.bus, path)
    /\ LET got == add_bus(BusAt(rc.bus, path), PciBus_new(number))
       IN  /\ rc' = [rc EXCEPT !.bus = WithBusAt(@, path, got.self)]
           /\ last' = [op |-> "add_bus", path |-> path, number |-> number,
                       result |-> got.result]
    /\ UNCHANGED <<panicked, threads>>

\* add_device(PciDevice::new_dummy_host_bridge(number)) on the bus at `path`
AddDevice(path, number) ==
    /\ ~panicked
    /\ HasBusAt(rc.bus, path)
    /\ LET got == add_device(BusAt(rc.bus, path),
                             PciDevice_new_dummy_host_bridge(number))
       IN  /\ rc' = [rc EXCEPT !.bus = WithBusAt(@, path, got.self)]
           /\ last' = [op |-> "add_device", path |-> path, number |-> number,
                       result |-> got.result]
    /\ UNCHANGED <<panicked, threads>>

\* read_configuration_register(bus, device, function, register) on the bus
\* at `path`
BusReadAt(path, bus, device, function, register) ==
    /\ ~panicked
    /\ HasBusAt(rc.bus, path)
    /\ LET got == BusRead(BusAt(rc.bus, path), bus, device, function, register)
       IN  last' = [op |-> "bus_read", path |-> path, bus |-> bus,
                    device |-> device, function |-> function,
                    register |-> register, val |-> got.val]
    /\ UNCHANGED <<rc, panicked, threads>>

GuestWriteAddress == \E a \in GuestAddresses : PortWrite(0, to_le_bytes(a))
GuestWriteData == \E w \in GuestDataWrites : PortWrite(w[1], w[2])
GuestRead == \E r \in GuestReads : PortRead(r[1], r[2])
SetupAddBus == \E i \in AddBusInputs : AddBus(i[1], i[2])
SetupAddDevice == \E i \in AddDeviceInputs : AddDevice(i[1], i[2])
SetupBusRead ==
    \E path \in {<< >>, <<1>>}, bus \in {1, 2} : BusReadAt(path, bus, 2, 0, 1)

Next ==
    \/ GuestWriteAddress
    \/ GuestWriteData
    \/ GuestRead
    \/ SetupAddBus
    \/ SetupAddDevice
    \/ SetupBusRead

Spec == Init /\ [][Next]_vars

\* The address port alone, written in every shape.
GuestWriteAddressBytes ==
    \E offset \in 0..3, data \in AddressBytes : PortWrite(offset, data)
GuestReadAddress == \E offset \in 0..3, len \in {1, 2, 4} : PortRead(offset, len)

NextAddress == GuestWriteAddressBytes \/ GuestReadAddress

SpecAddress == Init /\ [][NextAddress]_vars

\* The data port, written in every shape, on a tree of bus 0, bridge 1 and
\* device 2 on the bridge.
DataAddresses ==
    {Address(TRUE, 0, 0, 0, 1), Address(TRUE, 1, 2, 0, 1),
     Address(TRUE, 0, 3, 0, 1), Address(FALSE, 1, 2, 0, 1)}
\* n bytes of 0x12345678 from byte o on, going round the dword.
DataBytes(o, n) == [i \in 1..n |-> DataDword[((o + i - 1) % 4) + 1]]
DataPortWrites == {<<4 + o, DataBytes(o, n)>> : o \in 0..3, n \in 1..5}

GuestWriteDataAddress ==
    \E a \in DataAddresses : PortWrite(0, to_le_bytes(a))
GuestWriteDataBytes == \E w \in DataPortWrites : PortWrite(w[1], w[2])
GuestReadData == \E offset \in {0, 4} : PortRead(offset, 4)

NextData ==
    \/ GuestWriteDataAddress
    \/ GuestWriteDataBytes
    \/ GuestReadData
    \/ AddBus(<< >>, 1)
    \/ AddDevice(<<1>>, 2)

SpecData == Init /\ [][NextData]_vars

---------------------------------------------------------------------------
(* The topology calls on bus 0 and on its device 0 *)

\* remove_device(number) on the bus at `path`
RemoveDevice(path, number) ==
    /\ ~panicked
    /\ HasBusAt(rc.bus, path)
    /\ LET got == remove_device(BusAt(rc.bus, path), number)
       IN  /\ rc' = [rc EXCEPT !.bus = WithBusAt(@, path, got.self)]
           /\ last' = [op |-> "remove_device", path |-> path,
                       number |-> number, found |-> IsSome(got.removed)]
    /\ UNCHANGED <<panicked, threads>>

\* get_device(number) on the bus at `path`
GetDevice(path, number) ==
    /\ ~panicked
    /\ HasBusAt(rc.bus, path)
    /\ last' = [op |-> "get_device", path |-> path, number |-> number,
                found |-> IsSome(get_device(BusAt(rc.bus, path), number))]
    /\ UNCHANGED <<rc, panicked, threads>>

\* add_function(PciFunction::new_dummy_host_bridge(number)) on a device of
\* bus 0
AddFunction(device, number) ==
    /\ ~panicked
    /\ ContainsKey(rc.bus.devices, device)
    /\ LET got == add_function(rc.bus.devices[device],
                               PciFunction_new_dummy_host_bridge(number))
       IN  /\ rc' = [rc EXCEPT !.bus.devices[device] = got.self]
           /\ last' = [op |-> "add_function", device |-> device,
                       number |-> number, result |-> got.result]
    /\ UNCHANGED <<panicked, threads>>

\* Slots at both ends of the range and the first number outside it.
DeviceSlots == {0, 1, MAX_DEVICE_NUMBER - 1, MAX_DEVICE_NUMBER}
BusSlots == {1, MAX_BUS_NUMBER}
FunctionSlots == {0, MAX_FUNCTION_NUMBER - 1, MAX_FUNCTION_NUMBER}

NextTopology ==
    \/ \E n \in DeviceSlots : AddDevice(<< >>, n)
    \/ \E n \in DeviceSlots : RemoveDevice(<< >>, n)
    \/ \E n \in DeviceSlots : GetDevice(<< >>, n)
    \/ \E n \in BusSlots : AddBus(<< >>, n)
    \/ \E n \in FunctionSlots : AddFunction(0, n)

SpecTopology == Init /\ [][NextTopology]_vars

---------------------------------------------------------------------------
(* Functions built by PciFunction::new, added to and removed from device 0 *)
(* of bus 0.                                                               *)

\* Arguments of PciFunction::new: the dummy host bridge's, a PCI-to-PCI
\* bridge (class code 0x06_04_00_00) and a keyboard controller (class code
\* 0x09_00_00_00) with every field set.
NewSamples ==
    {[number |-> 0, device_id |-> DEVICE_ID_DUMMY_HOST_BRIDGE,
      vendor_id |-> VENDOR_ID_DUMMY_HOST_BRIDGE,
      class_code |-> ClassCodeHostBridge, revision_id |-> U(0),
      subsystem_id |-> U(0), subsystem_vendor_id |-> U(0)],
     [number |-> 1, device_id |-> U(13398), vendor_id |-> U(32902),
      class_code |-> U(100925440), revision_id |-> U(1),
      subsystem_id |-> U(0), subsystem_vendor_id |-> U(0)],
     [number |-> 3, device_id |-> U(4660), vendor_id |-> U(32902),
      class_code |-> U(150994944), revision_id |-> U(165),
      subsystem_id |-> U(48879), subsystem_vendor_id |-> U(5202)]}
New(p, header_type) ==
    PciFunction_new(p.number, p.device_id, p.vendor_id, p.class_code,
                    p.revision_id, header_type, p.subsystem_id,
                    p.subsystem_vendor_id)

\* add_function(PciFunction::new(p.., header_type)) on device `device` of
\* bus 0
AddNewFunction(device, p, header_type) ==
    /\ ~panicked
    /\ ContainsKey(rc.bus.devices, device)
    /\ LET got == add_function(rc.bus.devices[device], New(p, header_type))
       IN  /\ rc' = [rc EXCEPT !.bus.devices[device] = got.self]
           /\ last' = [op |-> "add_function_new", device |-> device,
                       p |-> p, header_type |-> header_type,
                       result |-> got.result]
    /\ UNCHANGED <<panicked, threads>>

\* remove_function(number) on device `device` of bus 0
RemoveFunction(device, number) ==
    /\ ~panicked
    /\ ContainsKey(rc.bus.devices, device)
    /\ LET got == remove_function(rc.bus.devices[device], number)
       IN  /\ rc' = [rc EXCEPT !.bus.devices[device] = got.self]
           /\ last' = [op |-> "remove_function", device |-> device,
                       number |-> number, found |-> IsSome(got.removed)]
    /\ UNCHANGED <<panicked, threads>>

NextConstruct ==
    \/ \E p \in NewSamples, header_type \in {"Type0", "Type1"} :
           AddNewFunction(0, p, header_type)
    \/ \E p \in NewSamples : RemoveFunction(0, p.number)

SpecConstruct == Init /\ [][NextConstruct]_vars

---------------------------------------------------------------------------
(* Buses, devices and functions added and removed at every level, with     *)
(* numbers that repeat along a path, and accesses made through a bus.      *)

\* remove_bus(number) on the bus at `path`
RemoveBus(path, number) ==
    /\ ~panicked
    /\ HasBusAt(rc.bus, path)
    /\ LET got == remove_bus(BusAt(rc.bus, path), number)
       IN  /\ rc' = [rc EXCEPT !.bus = WithBusAt(@, path, got.self)]
           /\ last' = [op |-> "remove_bus", path |-> path,
                       number |-> number, found |-> IsSome(got.removed)]
    /\ UNCHANGED <<panicked, threads>>

\* write_configuration_register(bus, device, function, register, offset,
\* data) on the bus at `path`
BusWriteAt(path, bus, device, function, register, offset, data) ==
    /\ ~panicked
    /\ HasBusAt(rc.bus, path)
    /\ rc' = [rc EXCEPT !.bus =
                 WithBusAt(@, path,
                           BusWrite(BusAt(rc.bus, path), bus, device,
                                    function, register, offset, data))]
    /\ last' = [op |-> "bus_write", path |-> path, bus |-> bus,
                device |-> device, function |-> function,
                register |-> register, offset |-> offset, data |-> data]
    /\ UNCHANGED <<panicked, threads>>

\* <<path, number>>: children 0 and 1 of bus 0, children 1 and 2 of bus 1,
\* and the first number out of range.
TreeBuses ==
    {<<<< >>, 0>>, <<<< >>, 1>>, <<<<1>>, 1>>, <<<<1>>, 2>>,
     <<<< >>, MAX_BUS_NUMBER>>}
\* <<path, number>>: device 2 on the child buses, and the first number out
\* of range.
TreeDevices ==
    {<<<<0>>, 2>>, <<<<1>>, 2>>, <<<<1, 1>>, 2>>, <<<<1>>, MAX_DEVICE_NUMBER>>}
\* <<path, bus, device>> of the accesses to function 0, register 1.
TreeAccesses ==
    {<<<< >>, 0, 0>>, <<<< >>, 0, 2>>, <<<< >>, 1, 2>>, <<<< >>, 2, 2>>,
     <<<<1>>, 1, 2>>}

NextTree ==
    \/ \E i \in TreeBuses : AddBus(i[1], i[2])
    \/ \E i \in TreeBuses : RemoveBus(i[1], i[2])
    \/ \E i \in TreeDevices : AddDevice(i[1], i[2])
    \/ \E i \in TreeDevices : RemoveDevice(i[1], i[2])
    \/ \E n \in {1, MAX_FUNCTION_NUMBER} : AddFunction(0, n)
    \/ \E n \in {0, 1} : RemoveFunction(0, n)
    \/ \E a \in TreeAccesses : BusReadAt(a[1], a[2], a[3], 0, 1)
    \/ \E a \in TreeAccesses :
           BusWriteAt(a[1], a[2], a[3], 0, 1, 0, DataDword)

SpecTree == Init /\ [][NextTree]_vars

---------------------------------------------------------------------------
(* The accessors of one PciFunction, called on the host bridge function    *)
(* (bus 0, device 0, function 0) through get_device and get_function.      *)

HostBridge == rc.bus.devices[0].functions[0]

WithHostBridge(function) ==
    [rc EXCEPT !.bus.devices[0].functions[0] = function]

\* Register 1 (command and status), the last register of the space and the
\* first index outside it.
LastRegister == CONFIGURATION_SPACE_SIZE - 1
ByteAccesses == {<<1, 2>>, <<1, 4>>, <<CONFIGURATION_SPACE_SIZE, 2>>}
\* A byte write is <<register, offset, data>>: the little-endian bytes of
\* 0x12345678 on register 1, and 0xA5 at an offset or a register that is out
\* of range.
ByteWrites ==
    {<<1, o, DataDword[o + 1]>> : o \in 0..3}
        \cup {<<1, 4, U(165)>>, <<CONFIGURATION_SPACE_SIZE, 2, U(165)>>}
WordAccesses == {<<1, 1>>, <<1, 3>>, <<LastRegister, 2>>}
DwordAccesses == {1, LastRegister, CONFIGURATION_SPACE_SIZE}

FnWriteByte(register, offset, data) ==
    /\ ~panicked
    /\ rc' = WithHostBridge(
                write_configuration_byte(HostBridge, register, offset, data))
    /\ last' = [op |-> "write_byte", register |-> register,
                offset |-> offset, data |-> data]
    /\ UNCHANGED <<panicked, threads>>

FnWriteWord(register, offset, data) ==
    /\ ~panicked
    /\ rc' = WithHostBridge(
                write_configuration_word(HostBridge, register, offset, data))
    /\ last' = [op |-> "write_word", register |-> register,
                offset |-> offset, data |-> data]
    /\ UNCHANGED <<panicked, threads>>

FnWriteDword(register, data) ==
    /\ ~panicked
    /\ rc' = WithHostBridge(
                write_configuration_dword(HostBridge, register, data))
    /\ last' = [op |-> "write_dword", register |-> register, data |-> data]
    /\ UNCHANGED <<panicked, threads>>

FnReadByte(register, offset) ==
    /\ ~panicked
    /\ last' = [op |-> "read_byte", register |-> register, offset |-> offset,
                val |-> read_configuration_byte(HostBridge, register, offset)]
    /\ UNCHANGED <<rc, panicked, threads>>

FnReadWord(register, offset) ==
    /\ ~panicked
    /\ last' = [op |-> "read_word", register |-> register, offset |-> offset,
                val |-> read_configuration_word(HostBridge, register, offset)]
    /\ UNCHANGED <<rc, panicked, threads>>

FnReadDword(register) ==
    /\ ~panicked
    /\ last' = [op |-> "read_dword", register |-> register,
                val |-> read_configuration_dword(HostBridge, register)]
    /\ UNCHANGED <<rc, panicked, threads>>

NextFunction ==
    \/ \E w \in ByteWrites : FnWriteByte(w[1], w[2], w[3])
    \/ \E a \in WordAccesses : FnWriteWord(a[1], a[2], U(48879))
    \/ \E r \in DwordAccesses \ {1} : FnWriteDword(r, U(305419896))
    \/ \E a \in ByteAccesses : FnReadByte(a[1], a[2])
    \/ \E a \in WordAccesses : FnReadWord(a[1], a[2])
    \/ \E r \in DwordAccesses : FnReadDword(r)

SpecFunction == Init /\ [][NextFunction]_vars

---------------------------------------------------------------------------
(* What the claims are stated with *)

FF == U(255)
AllFF(len) == [i \in 1..len |-> FF]

\* Bits lo .. lo + width - 1 of a word, as a word of their own.
Field(word, lo, width) == {i - lo : i \in word \cap (lo..(lo + width - 1))}
\* The word with those bits replaced by v.
WithField(word, lo, width, v) ==
    (word \ (lo..(lo + width - 1))) \cup {i + lo : i \in v}

RECURSIVE WithBytes(_, _, _)
\* The word with bytes offset .. offset + Len(data) - 1 replaced by data.
WithBytes(word, offset, data) ==
    IF data = << >> THEN word
    ELSE WithBytes(WithField(word, offset * 8, 8, Head(data)), offset + 1,
                   Tail(data))

\* Registers the legacy port can name, at the borders of the header fields.
PortRegisters == {0, 1, 2, 3, 11, 15, 16, 63}
\* Registers of the three regions of the space.
SpaceRegisters == {0, 1, 15, 16, 63, 64, LastRegister}
\* Buffers of 1 to 5 bytes.
DataShapes == {SubSeq(DataDword \o <<U(154)>>, 1, n) : n \in 1..5}
ByteSamples == {U(0), U(165), FF}
WordSamples == {U(0), U(48879), U(65535)}
DwordSamples == {U(305419896), U(0), U(5202) \cup {31}}
BusSamples == {0, 1, 2, 5, 255}

Stored(node, device, function, register) ==
    node.devices[device].functions[function].configuration_space[register]

\* Some bus of the tree has this number and holds this function.
TargetInTree(bus, device, function) ==
    \E path \in BusPaths(rc.bus) :
        LET node == BusAt(rc.bus, path)
        IN  /\ node.number = bus
            /\ ContainsKey(node.devices, device)
            /\ ContainsKey(node.devices[device].functions, function)

BridgeWithDevice ==
    /\ HasBusAt(rc.bus, <<1>>)
    /\ ContainsKey(rc.bus.buses[1].devices, 2)

---------------------------------------------------------------------------
(* Claims *)

\* C1: after a 4-byte write of 0x80000000 | b<<16 | d<<11 | f<<8 | r<<2 at
\* window offset 0, a 4-byte read at window offset 4 returns the dword stored
\* in register r of function f of device d on bus b, for b = 0 or a direct
\* child of bus 0 and every existing d and f.
C1_AddressThenData ==
    \A b \in {rc.bus.number} \cup DOMAIN rc.bus.buses :
        LET node == IF b = rc.bus.number THEN rc.bus ELSE rc.bus.buses[b]
        IN  \A d \in DOMAIN node.devices :
                \A f \in DOMAIN node.devices[d].functions :
                    \A r \in PortRegisters :
                        LET addressed ==
                                Write(rc, 0, to_le_bytes(Address(TRUE, b, d, f, r)))
                        IN  Read(addressed, 4, 4).data
                                = to_le_bytes(Stored(node, d, f, r))

C1_Witness ==
    /\ last.op = "read" /\ last.offset = 4 /\ last.len = 4
    /\ rc.config_address = Address(TRUE, 1, 2, 0, 1)
    /\ BridgeWithDevice
    /\ Stored(rc.bus.buses[1], 2, 0, 1) = U(305419896)
    /\ last.data = DataDword

\* C2: while bit 31 of config_address is clear, a read of the data port
\* returns 0xFFFFFFFF whatever the other bits and the tree are, and takes no
\* guard of a bus, device or function.
C2_DisabledReadIsAllOnes ==
    ~Enabled(rc) =>
        /\ read_configuration_space(rc) = [val |-> ALL_ONES, guards |-> << >>]
        /\ Read(rc, 4, 4) = [data |-> AllFF(4), guards |-> << >>]

C2_Witness ==
    /\ last.op = "read" /\ last.offset = 4 /\ last.len = 4
    /\ rc.config_address = Address(FALSE, 1, 2, 0, 1)
    /\ BridgeWithDevice
    /\ Stored(rc.bus.buses[1], 2, 0, 1) = U(305419896)
    /\ last.data = AllFF(4)
    /\ last.guards = << >>

\* C3: while bit 31 of config_address is clear, a write to the data port
\* (offsets 4..7, any data) alters no register: the tree is unchanged, and an
\* enabled read of any register returns what it would have returned without
\* the write.
C3_DisabledWriteChangesNothing ==
    ~Enabled(rc) =>
        \A offset \in 4..7, data \in DataShapes :
            LET written == Write(rc, offset, data)
            IN  /\ written.bus = rc.bus
                /\ \A a \in GuestAddresses :
                       Read(Write(written, 0, to_le_bytes(a)), 4, 4)
                           = Read(Write(rc, 0, to_le_bytes(a)), 4, 4)

C3_Witness ==
    /\ last.op = "write" /\ last.offset = 4 /\ last.data = DataDword
    /\ rc.config_address = Address(FALSE, 1, 2, 0, 1)
    /\ BridgeWithDevice
    /\ Stored(rc.bus.buses[1], 2, 0, 1) = ALL_ONES

\* C4: with the enable bit set, a data port read whose decoded bus, device
\* and function is nowhere in the tree returns 0xFFFFFFFF and a data port
\* write to it changes no state; neither fails.
C4_AbsentTargetIsAllOnes ==
    LET a == parse_configuration_address(rc)
    IN  (Enabled(rc) /\ ~TargetInTree(a[1], a[2], a[3])) =>
            /\ read_configuration_space(rc).val = ALL_ONES
            /\ Read(rc, 4, 4).data = AllFF(4)
            /\ \A offset \in 4..7, data \in DataShapes :
                   /\ Write(rc, offset, data) = rc
                   /\ ~WriteOverflows(offset, data)

C4_Witness ==
    /\ last.op = "read" /\ last.offset = 4 /\ last.len = 4
    /\ rc.config_address = Address(TRUE, 0, 1, 0, 1)
    /\ last.data = AllFF(4)

\* C5: a write of 1, 2 or 4 bytes at byte offset o of the address port with
\* o + len <= 4 replaces exactly bytes o .. o + len - 1 of config_address with
\* the data and leaves the other bytes unchanged, and does not fail.
C5_AddressWriteReplacesLanes ==
    \A offset \in 0..3, data \in DataShapes :
        (Len(data) \in {1, 2, 4} /\ offset + Len(data) <= 4) =>
            /\ ~WriteOverflows(offset, data)
            /\ Write(rc, offset, data).config_address
                   = WithBytes(rc.config_address, offset, data)

\* C6: with bus 1 below bus 0 and bus 2 below bus 1, a read of
\* (2, d, f, r) issued against bus 0, or an enabled data port read addressing
\* bus 2, returns the register stored on bus 2.
C6_DeepForwarding ==
    HasBusAt(rc.bus, <<1, 2>>) =>
        LET node == BusAt(rc.bus, <<1, 2>>)
        IN  \A d \in DOMAIN node.devices :
                \A f \in DOMAIN node.devices[d].functions :
                    \A r \in PortRegisters :
                        /\ BusRead(rc.bus, 2, d, f, r).val
                               = Some(Stored(node, d, f, r))
                        /\ Read(Write(rc, 0, to_le_bytes(Address(TRUE, 2, d, f, r))),
                                4, 4).data
                               = to_le_bytes(Stored(node, d, f, r))

\* C7: a read of (c, d, f, r) issued against bus 0 for a direct child bus c
\* holding (d, f) returns what the same read issued against bus c returns,
\* the stored register; a read for a bus number that is neither a bus's own
\* nor one of its children's returns absent.
C7_ChildRouting ==
    /\ \A c \in DOMAIN rc.bus.buses \ {rc.bus.number} :
           LET child == rc.bus.buses[c]
           IN  \A d \in DOMAIN child.devices :
                   \A f \in DOMAIN child.devices[d].functions :
                       \A r \in SpaceRegisters :
                           /\ BusRead(rc.bus, c, d, f, r).val
                                  = BusRead(child, c, d, f, r).val
                           /\ BusRead(rc.bus, c, d, f, r).val
                                  = Some(Stored(child, d, f, r))
    /\ \A path \in BusPaths(rc.bus) :
           LET node == BusAt(rc.bus, path)
           IN  \A b \in BusSamples \ ({node.number} \cup DOMAIN node.buses) :
                   \A d \in {0, 2}, f \in {0, 1}, r \in PortRegisters :
                       BusRead(node, b, d, f, r).val = None

C7_Witness ==
    /\ last.op = "bus_read" /\ last.path = << >> /\ last.bus = 1
    /\ BridgeWithDevice
    /\ last.val = Some(Stored(rc.bus.buses[1], 2, 0, 1))

\* C8: for a register below 1024, a byte offset in 0..3 and a byte v,
\* write_configuration_byte followed by read_configuration_byte at the same
\* place returns v, the other three byte lanes of the register keep their
\* values and every other register is unchanged.
C8_ByteRoundTrip ==
    \A register \in SpaceRegisters, offset \in 0..3, v \in ByteSamples :
        LET post == write_configuration_byte(HostBridge, register, offset, v)
        IN  /\ read_configuration_byte(post, register, offset) = Some(v)
            /\ \A other \in 0..3 \ {offset} :
                   read_configuration_byte(post, register, other)
                       = read_configuration_byte(HostBridge, register, other)
            /\ post = [HostBridge EXCEPT !.configuration_space[register] =
                          post.configuration_space[register]]

C8_Witness ==
    /\ last.op = "write_byte" /\ last.register = 1 /\ last.offset = 2
    /\ HostBridge.configuration_space[1]
           = WithField(ALL_ONES, 16, 8, DataDword[3])

RECURSIVE WriteBytesInOrder(_, _, _, _)
\* The function after byte writes of the little-endian bytes of v to the
\* lanes of `register` in the order given.
WriteBytesInOrder(self, register, v, order) ==
    IF order = << >> THEN self
    ELSE WriteBytesInOrder(
             write_configuration_byte(self, register, Head(order),
                                      to_le_bytes(v)[Head(order) + 1]),
             register, v, Tail(order))

LaneOrders == {o \in [1..4 -> 0..3] : \A i, j \in 1..4 : o[i] = o[j] => i = j}

\* C9: writing bytes 0..3 of a register with the little-endian bytes of v in
\* any order, or its low and high halves with two word writes, makes
\* read_configuration_dword of the register equal v whatever it held.
C9_SubDwordWritesCompose ==
    \A register \in {1, 64, LastRegister}, v \in DwordSamples :
        /\ \A order \in LaneOrders :
               read_configuration_dword(
                   WriteBytesInOrder(HostBridge, register, v, order), register)
                   = Some(v)
        /\ read_configuration_dword(
               write_configuration_word(
                   write_configuration_word(HostBridge, register, 0, AsU16(v)),
                   register, 2, AsU16(Shr(v, 16))), register) = Some(v)
        /\ read_configuration_dword(
               write_configuration_word(
                   write_configuration_word(HostBridge, register, 2,
                                            AsU16(Shr(v, 16))),
                   register, 0, AsU16(v)), register) = Some(v)

C9_Witness ==
    /\ last.op = "write_byte" /\ last.register = 1 /\ last.offset = 0
    /\ read_configuration_dword(HostBridge, 1) = Some(U(305419896))

\* C10 as claimed: the offset of a word access selects a half-word, so that
\* for offset in {0,1} write_word replaces bits 16*offset .. 16*offset+15 and
\* keeps the other half, read_word returns that half-word, and every other
\* offset is rejected.
C10_HalfWordSelector ==
    \A register \in SpaceRegisters, offset \in 0..4, v \in WordSamples :
        LET old == HostBridge.configuration_space[register]
            post == write_configuration_word(HostBridge, register, offset, v)
        IN  IF offset \in {0, 1}
            THEN /\ post.configuration_space[register]
                        = WithField(old, 16 * offset, 16, v)
                 /\ read_configuration_word(HostBridge, register, offset)
                        = Some(Field(old, 16 * offset, 16))
            ELSE /\ post = HostBridge
                 /\ read_configuration_word(HostBridge, register, offset) = None

\* C10 amended: the offset of a word access is a byte offset, so that for
\* offset in {0,1,2} write_word replaces bits 8*offset .. 8*offset+15 and
\* keeps the other 16 bits and every other register, read_word returns those
\* 16 bits, and an offset above 2 is rejected (no effect, absent).
C10_WordAtByteOffset ==
    \A register \in SpaceRegisters, offset \in 0..4, v \in WordSamples :
        LET old == HostBridge.configuration_space[register]
            post == write_configuration_word(HostBridge, register, offset, v)
        IN  IF offset \in {0, 1, 2}
            THEN /\ post = [HostBridge EXCEPT !.configuration_space[register] =
                               WithField(old, 8 * offset, 16, v)]
                 /\ read_configuration_word(post, register, offset) = Some(v)
                 /\ read_configuration_word(HostBridge, register, offset)
                        = Some(Field(old, 8 * offset, 16))
            ELSE /\ post = HostBridge
                 /\ read_configuration_word(HostBridge, register, offset) = None

C10_Witness ==
    /\ last.op = "write_word" /\ last.register = 1 /\ last.offset = 1
    /\ HostBridge.configuration_space[1]
           = WithField(ALL_ONES, 8, 16, U(48879))

\* The dword a port read selects: config_address below offset 4, the data
\* register from offset 4.
SelectedDword(self, offset) ==
    IF offset < 4 THEN self.config_address
    ELSE read_configuration_space(self).val

\* C11: a read of len bytes at window offset o with o in 0..7 and
\* (o mod 4) + len <= 4 fills buffer byte i with byte (o mod 4) + i of the
\* selected dword (config_address for o in 0..3, the data register for o in
\* 4..7); a span that crosses a sub-window or an offset outside the window
\* fills the buffer with 0xFF.
C11_PortReadContract ==
    \A o \in 0..9, len \in 0..5 :
        LET got == Read(rc, o, len).data
        IN  /\ Len(got) = len
            /\ IF o \in 0..7 /\ (o % 4) + len <= 4
               THEN \A i \in 0..(len - 1) :
                        got[i + 1]
                            = Field(SelectedDword(rc, o), ((o % 4) + i) * 8, 8)
               ELSE got = AllFF(len)

C11_Witness ==
    /\ last.op = "read" /\ last.offset = 5 /\ last.len = 2
    /\ rc.config_address = Address(TRUE, 1, 2, 0, 1)
    /\ BridgeWithDevice
    /\ Stored(rc.bus.buses[1], 2, 0, 1) = U(305419896)
    /\ last.data = <<U(86), U(52)>>

\* Every function of the tree, as <<path of its bus, device, function>>.
FunctionsInTree ==
    UNION {UNION {{<<path, d, f>> :
                      f \in DOMAIN BusAt(rc.bus, path).devices[d].functions}
                  : d \in DOMAIN BusAt(rc.bus, path).devices}
           : path \in BusPaths(rc.bus)}

FunctionAt(self, t) == BusAt(self.bus, t[1]).devices[t[2]].functions[t[3]]

\* `self` with register r of the function at t set to v by
\* write_configuration_dword.
WithRegister(self, t, r, v) ==
    [self EXCEPT !.bus =
        WithBusAt(@, t[1],
            [BusAt(self.bus, t[1]) EXCEPT !.devices[t[2]].functions[t[3]] =
                write_configuration_dword(@, r, v)])]

\* Config addresses: the ones the guest writes, every single bit, none and
\* all of them.
AddressSamples ==
    GuestAddresses \cup {{}, ALL_ONES} \cup {{i} : i \in WORD_BITS}
ReservedSamples == {RESERVED_BITS, {0}, {1}, {24}, {30}, 24..30, {}}
\* Enabled addresses of registers of functions that exist or may come to.
TargetAddresses ==
    {Address(TRUE, 0, 0, 0, 1), Address(TRUE, 1, 2, 0, 1),
     Address(TRUE, 0, 0, 0, 63), Or(rc.config_address, ENABLE_BIT)}

\* The root complex with config_address set to a.
Addressed(self, a) == [self EXCEPT !.config_address = a]

\* parse_configuration_address of `self` holding address a returns the four
\* fields of a, each in its range, whatever the reserved bits are.
DecodesFields(self, a) ==
    LET got == parse_configuration_address(Addressed(self, a))
    IN  /\ got = <<NatOf(Field(a, 16, 8)), NatOf(Field(a, 11, 5)),
                   NatOf(Field(a, 8, 3)), NatOf(Field(a, 2, 6))>>
        /\ got[1] < 256 /\ got[2] < 32 /\ got[3] < 8 /\ got[4] < 64
        /\ \A res \in ReservedSamples :
               parse_configuration_address(
                   Addressed(self, (a \ RESERVED_BITS) \cup res)) = got
\* The decode reads config_address alone: the samples are decoded by a new
\* root complex.
DecodesSamples ==
    \A a \in AddressSamples : DecodesFields(PciRootComplex_new, a)

\* C12: parse_configuration_address returns bus = bits 23:16, device = bits
\* 15:11, function = bits 10:8 and register = bits 7:2 of config_address, so
\* bus < 256, device < 32, function < 8 and register < 64; addresses that
\* differ in the reserved bits 30:24 and 1:0 only address the same register;
\* and no port access reads or changes a register with index >= 64.
C12_AddressDecode ==
    /\ DecodesSamples
    /\ DecodesFields(rc, rc.config_address)
    /\ \A a \in TargetAddresses :
           LET register == parse_configuration_address(Addressed(rc, a))[4]
               addressed == Write(rc, 0, to_le_bytes(a))
               read == Read(addressed, 4, 4).data
           IN  /\ Read(Write(rc, 0, to_le_bytes(Or(a, RESERVED_BITS))), 4, 4).data
                      = read
               /\ \A w \in {<<4, DataDword>>, <<7, <<FF>>>>} :
                      LET post == Write(Write(rc, 0, to_le_bytes(Or(a, RESERVED_BITS))),
                                        w[1], w[2])
                      IN  \A t \in FunctionsInTree :
                              FunctionAt(post, t)
                                  = [FunctionAt(rc, t) EXCEPT
                                        !.configuration_space[register] =
                                            FunctionAt(post, t).configuration_space[register]]
    /\ \A a \in {Address(TRUE, 1, 2, 0, 63), Or(rc.config_address, ENABLE_BIT)} :
           \A t \in FunctionsInTree, r \in {64, LastRegister} :
               Read(Write(WithRegister(rc, t, r, U(305419896)), 0,
                          to_le_bytes(a)), 4, 4).data
                   = Read(Write(rc, 0, to_le_bytes(a)), 4, 4).data

C12_Witness ==
    /\ last.op = "write" /\ last.offset = 4 /\ last.data = DataDword
    /\ rc.config_address = Or(Address(TRUE, 0, 0, 0, 1), RESERVED_BITS)
    /\ HostBridge.configuration_space[1] = U(305419896)

RECURSIVE AddDevices(_, _, _)
\* tests::bus_device_add_get_remove, first loop: add_device of the devices
\* numbered k .. n - 1 in order, each of which must succeed and be found.
AddDevices(bus, k, n) ==
    IF k = n THEN [self |-> bus, ok |-> TRUE]
    ELSE LET got == add_device(bus, PciDevice_new(k))
         IN  IF got.result = "Ok" /\ IsSome(get_device(got.self, k))
             THEN AddDevices(got.self, k + 1, n)
             ELSE [self |-> got.self, ok |-> FALSE]

\* C13: from an empty bus the adds of devices 0..31 all succeed and each
\* device is then found by get_device; the add of device 32 fails; and on
\* any bus reached by adds and removes, remove_device(n) frees slot n, so
\* that the add of a device numbered n succeeds and the device is found.
C13_DeviceSlots ==
    /\ LET full == AddDevices(PciBus_new(0), 0, MAX_DEVICE_NUMBER)
       IN  /\ full.ok
           /\ \A n \in 0..(MAX_DEVICE_NUMBER - 1) :
                  get_device(full.self, n) = Some(PciDevice_new(n))
           /\ add_device(full.self, PciDevice_new(MAX_DEVICE_NUMBER)).result
                  # "Ok"
    /\ add_device(rc.bus, PciDevice_new(MAX_DEVICE_NUMBER)).result # "Ok"
    /\ \A n \in 0..(MAX_DEVICE_NUMBER - 1) :
           LET freed == remove_device(rc.bus, n).self
               again == add_device(freed, PciDevice_new(n))
           IN  /\ get_device(freed, n) = None
               /\ again.result = "Ok"
               /\ get_device(again.self, n) = Some(PciDevice_new(n))

C13_Witness ==
    /\ last.op = "add_device" /\ last.path = << >> /\ last.number = 0
    /\ last.result = "Ok"
    /\ DOMAIN rc.bus.devices = {0, 1, MAX_DEVICE_NUMBER - 1}

\* Map `after` is map `before` with `new` inserted under key n.
Inserted(before, after, n, new) ==
    /\ DOMAIN after = DOMAIN before \cup {n}
    /\ after[n] = new
    /\ \A k \in DOMAIN before \ {n} : after[k] = before[k]

\* Nodes that differ from any occupant the calls of NextTopology create.
NewBus(n) == add_device(PciBus_new(n), PciDevice_new(5)).self
NewFunction(n) ==
    write_configuration_dword(PciFunction_new_dummy_host_bridge(n), 4,
                              U(305419896))

\* C14: add_bus, add_device and add_function return the invalid-number error
\* for a number >= 256, >= 32 and >= 8, the slot-in-use error for a number
\* already present, and leave the node exactly as it was in both cases;
\* otherwise they insert the new node under its own number.
C14_StructuralErrors ==
    /\ \A n \in {0, 1, 2, 255, 256, 257} :
           LET got == add_bus(rc.bus, NewBus(n))
           IN  IF n >= 256
               THEN got.result = "InvalidPciBusNumber" /\ got.self = rc.bus
               ELSE IF n \in DOMAIN rc.bus.buses
               THEN got.result = "AlreadyInUsePciBusSlot" /\ got.self = rc.bus
               ELSE /\ got.result = "Ok"
                    /\ Inserted(rc.bus.buses, got.self.buses, n, NewBus(n))
                    /\ got.self = [rc.bus EXCEPT !.buses = got.self.buses]
    /\ \A n \in {0, 1, 2, 31, 32, 33} :
           LET got == add_device(rc.bus, PciDevice_new(n))
           IN  IF n >= 32
               THEN got.result = "InvalidPciDeviceNumber" /\ got.self = rc.bus
               ELSE IF n \in DOMAIN rc.bus.devices
               THEN got.result = "AlreadyInUsePciDeviceSlot" /\ got.self = rc.bus
               ELSE /\ got.result = "Ok"
                    /\ Inserted(rc.bus.devices, got.self.devices, n,
                                PciDevice_new(n))
                    /\ got.self = [rc.bus EXCEPT !.devices = got.self.devices]
    /\ \A d \in DOMAIN rc.bus.devices, n \in {0, 1, 7, 8, 9} :
           LET device == rc.bus.devices[d]
               got == add_function(device, NewFunction(n))
           IN  IF n >= 8
               THEN got.result = "InvalidPciFunctionNumber" /\ got.self = device
               ELSE IF n \in DOMAIN device.functions
               THEN got.result = "AlreadyInUsePciFunctionSlot" /\ got.self = device
               ELSE /\ got.result = "Ok"
                    /\ Inserted(device.functions, got.self.functions, n,
                                NewFunction(n))
                    /\ got.self = [device EXCEPT !.functions = got.self.functions]

C14_Witness ==
    /\ last.op = "add_device" /\ last.path = << >> /\ last.number = 1
    /\ last.result = "AlreadyInUsePciDeviceSlot"
    /\ ContainsKey(rc.bus.devices[1].functions, 0)
    /\ ContainsKey(rc.bus.buses, 1)

\* C15: no BusDevice read or write, whatever its offset and buffer, reaches
\* a failure (panic, arithmetic or shift overflow, index out of range).
C15_NoPortAccessFails == ~panicked

---------------------------------------------------------------------------
(* Concurrent callers.  Every node is an Arc<Mutex<_>>: a caller that      *)
(* enters at the root bus, at a child bus or at a device handle locks the  *)
(* node it enters at, and each method locks the child it routes to while   *)
(* the guard of the parent is alive; the guards are dropped innermost      *)
(* first as the calls return.  Under the guard of the function a byte      *)
(* write loads the register, stores it with the lane cleared and stores it *)
(* again with the lane set.                                                *)

\* The tree the callers share: bus 1 below bus 0, holding device 2.
ConcurrentTree ==
    [PciRootComplex_new EXCEPT !.bus =
        add_bus(@, add_device(PciBus_new(1),
                              PciDevice_new_dummy_host_bridge(2)).self).self]

\* The targets <<bus, device, function>> of the accesses, and the register.
TargetBridged == <<1, 2, 0>>
TargetHostBridge == <<0, 0, 0>>
TargetPlace(target) ==
    <<IF target[1] = rc.bus.number THEN << >> ELSE <<target[1]>>,
      target[2], target[3]>>

\* The guards taken from the root bus down to the function of `target`:
\* the guard of bus 0, then those read_configuration_register takes.
RootChain(target) ==
    <<Guard("bus", rc.bus)>>
        \o BusRead(rc.bus, target[1], target[2], target[3],
                    COMMAND_REGISTER).guards

\* A node is named by the guards from the root down to it.
NodeOf(target, i) == SubSeq(RootChain(target), 1, i)

\* A caller that locks from the function up to the node it entered at.
MutLockChainUpward(target, entry) ==
    [i \in 1..(Len(RootChain(target)) - entry + 1) |->
        NodeOf(target, Len(RootChain(target)) - i + 1)]

\* The nodes an access locks, in order, when it enters at node `entry` of
\* the chain (1: the root bus, 2: the child bus or the device, ...).
LockChain(target, entry) ==
    [i \in 1..(Len(RootChain(target)) - entry + 1) |->
        NodeOf(target, entry + i - 1)]

Held(t) ==
    IF threads[t].pc = "idle" THEN {}
    ELSE {threads[t].chain[i] : i \in 1..threads[t].held}

\* A lock() that never waits.
MutCanLockAlways(t, node) == TRUE

\* Mutex::lock returns once no other caller holds the guard.
CanLock(t, node) == \A u \in Threads \ {t} : node \notin Held(u)

\* The byte lane caller t writes, and the byte it writes there.
LaneOf(t) == (t - 1) % 4
ByteOf(t) == DataDword[LaneOf(t) + 1]

ConcurrentAccesses ==
    {[target |-> TargetBridged, entry |-> e, op |-> "write"] : e \in 1..3}
        \cup {[target |-> TargetBridged, entry |-> 1, op |-> "read"],
              [target |-> TargetHostBridge, entry |-> 2, op |-> "read"]}

InitConcurrent ==
    /\ rc = ConcurrentTree
    /\ last = [op |-> "new"]
    /\ panicked = FALSE
    /\ threads = [t \in Threads |-> Idle]

\* Caller t begins an access.
Start(t, a) ==
    /\ threads[t].pc = "idle"
    /\ threads' = [threads EXCEPT ![t] =
                      [pc |-> "locking", op |-> a.op, target |-> a.target,
                       chain |-> LockChain(a.target, a.entry), held |-> 0,
                       local |-> {}, wrote |-> @.wrote]]
    /\ UNCHANGED <<rc, last, panicked>>

\* lock().unwrap() of the next node of the chain.
Lock(t) ==
    /\ threads[t].pc = "locking"
    /\ CanLock(t, threads[t].chain[threads[t].held + 1])
    /\ threads' = [threads EXCEPT
                      ![t].held = @ + 1,
                      ![t].pc = IF threads[t].held + 1 = Len(threads[t].chain)
                                THEN "locked" ELSE "locking"]
    /\ UNCHANGED <<rc, last, panicked>>

\* Under the guard of the function: read_configuration_dword, or the load
\* of the register by write_configuration_byte.
Access(t) ==
    /\ threads[t].pc = "locked"
    /\ LET function == FunctionAt(rc, TargetPlace(threads[t].target))
       IN  threads' = [threads EXCEPT
                         ![t].local =
                             IF threads[t].op = "read"
                             THEN read_configuration_dword(function,
                                                           COMMAND_REGISTER)[1]
                             ELSE function.configuration_space[COMMAND_REGISTER],
                         ![t].pc = IF threads[t].op = "read"
                                   THEN "unlocking" ELSE "loaded"]
    /\ UNCHANGED <<rc, last, panicked>>

\* `rc` with the register of caller t's target stored as
\* PciDevice::write_configuration_register leaves it when the function holds
\* `value` there and the byte written to caller t's lane is `byte`.
RegisterAfterWrite(t, value, byte) ==
    LET place == TargetPlace(threads[t].target)
        device == BusAt(rc.bus, place[1]).devices[place[2]]
        loaded == [device EXCEPT
                      !.functions[place[3]].configuration_space[COMMAND_REGISTER] =
                          value]
    IN  DeviceWrite(loaded, place[3], COMMAND_REGISTER, LaneOf(t), <<byte>>)
            .functions[place[3]].configuration_space[COMMAND_REGISTER]

\* `*register &= !(0xFF << (offset * 8))`: the store of the loaded value
\* with the lane cleared.
Clear(t) ==
    /\ threads[t].pc = "loaded"
    /\ LET cleared == RegisterAfterWrite(t, threads[t].local, U(0))
       IN  /\ rc' = WithRegister(rc, TargetPlace(threads[t].target),
                                 COMMAND_REGISTER, cleared)
           /\ threads' = [threads EXCEPT ![t].pc = "cleared",
                                         ![t].local = cleared]
    /\ UNCHANGED <<last, panicked>>

\* `*register |= (data as u32) << (offset * 8)`: the store of the cleared
\* value with the lane set.
Store(t) ==
    /\ threads[t].pc = "cleared"
    /\ rc' = WithRegister(rc, TargetPlace(threads[t].target), COMMAND_REGISTER,
                          RegisterAfterWrite(t, threads[t].local, ByteOf(t)))
    /\ threads' = [threads EXCEPT ![t].pc = "unlocking", ![t].wrote = TRUE]
    /\ UNCHANGED <<last, panicked>>

\* The innermost guard is dropped; the access returns with the last one.
Unlock(t) ==
    /\ threads[t].pc = "unlocking"
    /\ threads' = [threads EXCEPT ![t] =
                      IF @.held = 1 THEN [pc |-> "idle", wrote |-> @.wrote]
                      ELSE [@ EXCEPT !.held = @ - 1]]
    /\ UNCHANGED <<rc, last, panicked>>

NextConcurrent ==
    \/ \E t \in Threads, a \in ConcurrentAccesses : Start(t, a)
    \/ \E t \in Threads : Lock(t)
    \/ \E t \in Threads : Access(t)
    \/ \E t \in Threads : Clear(t)
    \/ \E t \in Threads : Store(t)
    \/ \E t \in Threads : Unlock(t)

SpecConcurrent == InitConcurrent /\ [][NextConcurrent]_vars

\* The scheduler runs every caller that can take a step, and a caller that
\* can take a guard again and again gets it.
SpecConcurrentFair ==
    /\ SpecConcurrent
    /\ \A t \in Threads :
           /\ WF_vars(Access(t) \/ Clear(t) \/ Store(t) \/ Unlock(t))
           /\ SF_vars(Lock(t))

\* The node caller t waits for or is about to lock.
Requested(t) == threads[t].chain[threads[t].held + 1]
\* Caller t waits for a guard caller u holds.
Waits(t, u) ==
    threads[t].pc = "locking" /\ t # u /\ Requested(t) \in Held(u)
\* Node a is a proper ancestor of node b; node a is the parent of node b.
IsAncestor(a, b) == Len(a) < Len(b) /\ SubSeq(b, 1, Len(a)) = a
IsParent(a, b) == IsAncestor(a, b) /\ Len(b) = Len(a) + 1
\* The kind of a node: that of its own guard, the last of its name.
KindRank(node) ==
    CASE node[Len(node)][1] = "bus" -> 1
      [] node[Len(node)][1] = "device" -> 2
      [] node[Len(node)][1] = "function" -> 3

\* Guards are taken parent before child, bus before device before function,
\* with every ancestor taken since entry still held; a caller only ever
\* requests a descendant of all it holds.
LockOrder ==
    \A t \in Threads :
        threads[t].pc # "idle" =>
            /\ \A i \in 1..(Len(threads[t].chain) - 1) :
                   /\ IsParent(threads[t].chain[i], threads[t].chain[i + 1])
                   /\ KindRank(threads[t].chain[i])
                          <= KindRank(threads[t].chain[i + 1])
            /\ threads[t].pc = "locking" =>
                   \A h \in Held(t) : IsAncestor(h, Requested(t))
            /\ \A u \in Threads \ {t} : Held(t) \cap Held(u) = {}

\* No set of callers in which each waits for a guard another of them holds.
NoWaitCycle ==
    \A S \in SUBSET Threads \ {{}} :
        ~ \A t \in S : \E u \in S : Waits(t, u)

SharedRegister ==
    FunctionAt(rc, TargetPlace(TargetBridged)).configuration_space[COMMAND_REGISTER]

\* C17: when concurrent callers write different byte lanes of one register,
\* every write that was made is in the register from its store on, but for
\* the moment its own caller rewrites the lane (no update is lost), and a
\* concurrent dword read returns each lane as it was before or after a whole
\* write, never a lane that is cleared and not yet set.
C17_AtomicRegisterAccess ==
    /\ \A t \in Threads :
           (threads[t].wrote /\ threads[t].pc # "cleared") =>
               Field(SharedRegister, 8 * LaneOf(t), 8) = ByteOf(t)
    /\ \A t \in Threads :
           (/\ threads[t].pc = "unlocking"
            /\ threads[t].op = "read"
            /\ threads[t].target = TargetBridged) =>
               \A lane \in 0..3 :
                   Field(threads[t].local, 8 * lane, 8)
                       \in {FF, DataDword[lane + 1]}

C17_Witness ==
    /\ threads[1].pc = "unlocking" /\ threads[1].op = "write"
    /\ threads[2].pc = "unlocking" /\ threads[2].op = "write"
    /\ threads[1].wrote /\ threads[2].wrote
    /\ SharedRegister = WithBytes(ALL_ONES, 0, <<ByteOf(1), ByteOf(2)>>)

\* C18: config_address is 0 initially; a 4-byte write of v at window offset 0
\* followed by a 4-byte read at window offset 0 returns v; and its value
\* changes only by writes to window offsets 0..3: data port reads and
\* writes, dropped or out-of-window accesses and topology changes leave it.
C18_ConfigAddressPersists ==
    /\ [](/\ last.op = "new" => rc.config_address = {}
          /\ \A v \in DwordSamples \cup GuestAddresses :
                 Read(Write(rc, 0, to_le_bytes(v)), 0, 4).data = to_le_bytes(v)
          /\ \A offset \in 0..9, data \in DataShapes :
                 (offset > 3 \/ offset + Len(data) > 4 \/ Len(data) \in {3, 5}) =>
                     Write(rc, offset, data).config_address = rc.config_address)
    /\ [][rc'.config_address # rc.config_address =>
              last'.op = "write" /\ last'.offset \in 0..3]_vars

C18_Witness ==
    /\ last.op = "read" /\ last.offset = 0 /\ last.len = 4
    /\ last.data = to_le_bytes(Address(TRUE, 1, 2, 0, 1))
    /\ BridgeWithDevice
    /\ Stored(rc.bus.buses[1], 2, 0, 1) = U(305419896)

\* Register indexes: inside the space, the first one outside it and two
\* further out.
RegisterIndexes ==
    SpaceRegisters \cup {CONFIGURATION_SPACE_SIZE, CONFIGURATION_SPACE_SIZE + 1,
                          2 * CONFIGURATION_SPACE_SIZE}

\* C19: for a register index >= 1024 read_configuration_dword returns absent
\* and write_configuration_dword changes none of the registers; a byte access
\* with offset >= 4 and a word access with offset >= 3 return absent on read
\* and leave every register unchanged on write, whatever the register index.
C19_InvalidCoordinatesAbsorbed ==
    /\ \A register \in RegisterIndexes \ SpaceRegisters :
           /\ read_configuration_dword(HostBridge, register) = None
           /\ \A v \in DwordSamples :
                  write_configuration_dword(HostBridge, register, v)
                      = HostBridge
    /\ \A register \in RegisterIndexes :
           /\ \A offset \in 4..6 :
                  /\ read_configuration_byte(HostBridge, register, offset)
                         = None
                  /\ \A v \in ByteSamples :
                         write_configuration_byte(HostBridge, register,
                                                  offset, v) = HostBridge
           /\ \A offset \in 3..6 :
                  /\ read_configuration_word(HostBridge, register, offset)
                         = None
                  /\ \A v \in WordSamples :
                         write_configuration_word(HostBridge, register,
                                                  offset, v) = HostBridge
    /\ (/\ last.op \in {"read_byte", "read_word", "read_dword"}
        /\ \/ last.register >= CONFIGURATION_SPACE_SIZE
           \/ last.op = "read_byte" /\ last.offset >= 4
           \/ last.op = "read_word" /\ last.offset >= 3)
           => last.val = None

C19_Witness ==
    /\ last.op = "write_dword" /\ last.register = CONFIGURATION_SPACE_SIZE
    /\ HostBridge.configuration_space[LastRegister] = U(305419896)
    /\ HostBridge.configuration_space[1] = U(305419896)

\* C20 as claimed: write_configuration_register with data of a length other
\* than 1, 2 or 4 and offset + length <= 4 (3 bytes at offset 0 or 1) writes
\* the data one byte at a time: bytes offset .. offset + length - 1 of the
\* target register equal the data and the other bytes and registers are
\* preserved.
C20_OddLengthByteByByte ==
    \A number \in DOMAIN rc.bus.devices :
        \A function \in DOMAIN rc.bus.devices[number].functions :
            \A register \in {0, 1}, offset \in {0, 1} :
                LET device == rc.bus.devices[number]
                    data == SubSeq(DataDword, 1, 3)
                    old == device.functions[function]
                    post == DeviceWrite(device, function, register, offset,
                                        data)
                IN  post.functions[function] =
                        [old EXCEPT !.configuration_space[register] =
                            WithBytes(@, offset, data)]

\* The shapes of a write that fits its dword: <<o, len>>.
LaneShapes == {<<o, n>> \in (0..3) \X {1, 2, 4} : o + n <= 4}
\* Payloads of n bytes.
Payloads(n) == {DataBytes(1, n), [i \in 1..n |-> U(0)], AllFF(n)}
\* The four bytes `old` with bytes o .. o + Len(data) - 1 replaced by data.
Merged(old, o, data) ==
    [i \in 1..4 |-> IF i - 1 \in o..(o + Len(data) - 1)
                    THEN data[i - o] ELSE old[i]]

\* C21: with the enable bit set and the target present, a write of len in
\* {1, 2, 4} bytes at window offset 4 + o with o + len <= 4 makes bytes
\* o .. o + len - 1 of the addressed register equal the data and preserves
\* its other bytes: a following 4-byte data port read returns the merged
\* dword.
C21_DataPortLanes ==
    LET a == parse_configuration_address(rc)
    IN  (Enabled(rc) /\ TargetInTree(a[1], a[2], a[3])) =>
            \A shape \in LaneShapes :
                \A data \in Payloads(shape[2]) :
                    LET old == Read(rc, 4, 4).data
                        post == Write(rc, 4 + shape[1], data)
                    IN  /\ Read(post, 4, 4).data = Merged(old, shape[1], data)
                        /\ read_configuration_space(post).val
                               = WithBytes(read_configuration_space(rc).val,
                                           shape[1], data)

C21_Witness ==
    /\ last.op = "write" /\ last.offset = 5 /\ last.data = DataBytes(1, 2)
    /\ rc.config_address = Address(TRUE, 1, 2, 0, 1)
    /\ BridgeWithDevice
    /\ Stored(rc.bus.buses[1], 2, 0, 1)
           = WithBytes(ALL_ONES, 1, DataBytes(1, 2))

\* Writes that run past the end of the dword: <<offset, len>>.
OversizeShapes == {<<o, n>> \in (0..5) \X (1..5) : o + n > 4}
\* The devices of bus 0 and of its child buses.
DevicesInTree ==
    UNION {{bus.devices[d] : d \in DOMAIN bus.devices} :
              bus \in {rc.bus} \cup {rc.bus.buses[n] : n \in DOMAIN rc.bus.buses}}

\* C22: a write with offset + length > 4 to set_configuration_address, to
\* write_configuration_space or to PciDevice::write_configuration_register
\* changes neither config_address nor any register.
C22_OversizeDropped ==
    \A shape \in OversizeShapes :
        \A data \in {DataBytes(shape[1], shape[2]), AllFF(shape[2])} :
            /\ set_configuration_address(rc, shape[1], data) = rc
            /\ write_configuration_space(rc, shape[1], data) = rc
            /\ \A device \in DevicesInTree, function \in {0, 1} :
                   DeviceWrite(device, function, 1, shape[1], data) = device

C22_Witness ==
    /\ last.op = "write" /\ last.offset = 6 /\ last.data = DataBytes(2, 4)
    /\ rc.config_address = Address(TRUE, 1, 2, 0, 1)
    /\ BridgeWithDevice
    /\ Stored(rc.bus.buses[1], 2, 0, 1) = U(305419896)

\* The registers the claim gives a Type 0 function built from p.
Type0Registers(p) ==
    [i \in 0..(CONFIGURATION_SPACE_SIZE - 1) |->
        CASE i = 0 -> Or(Shl(p.device_id, 16), p.vendor_id)
          [] i = 2 -> Or(p.class_code, p.revision_id)
          [] i = 11 -> Or(Shl(p.subsystem_id, 16), p.subsystem_vendor_id)
          [] OTHER -> {}]

\* The function the last add_function put on device 0.
LastAdded == rc.bus.devices[0].functions[last.p.number]
AddedNew(header_type) ==
    /\ last.op = "add_function_new" /\ last.result = "Ok"
    /\ last.header_type = header_type

\* C23 as claimed: after PciFunction::new with a Type 0 header, dword 0 is
\* device_id << 16 | vendor_id, dword 2 is class code | revision_id, byte 2
\* of dword 3 is 0, dword 11 is subsystem_id << 16 | subsystem_vendor_id and
\* every other register of the 1024, dword 1 among them, is zero.
C23_Type0Construction ==
    AddedNew("Type0") =>
        LastAdded.configuration_space = Type0Registers(last.p)

\* C24 as claimed: after PciFunction::new with a Type 1 header, byte 2 of
\* dword 3 is 0x01, the bus number triplet in dword 6 and the secondary
\* status in dword 7 are zero, and memory base and limit in dword 8 and
\* bridge control in dword 15 hold 0xFFFF.
C24_Type1Construction ==
    AddedNew("Type1") =>
        LET space == LastAdded.configuration_space
        IN  /\ Field(space[HEADER_TYPE_REGISTER], 8 * HEADER_TYPE_OFFSET, 8)
                   = U(1)
            /\ Field(space[6], 0, 24) = {}
            /\ Field(space[7], 16, 16) = {}
            /\ Field(space[8], 0, 16) = U(65535)
            /\ Field(space[8], 16, 16) = U(65535)
            /\ Field(space[15], 16, 16) = U(65535)

\* The guards of buses among the guards an access took.
BusGuards(guards) == SelectSeq(guards, LAMBDA g : g[1] = "bus")

\* C25: in every tree reached by add_bus, remove_bus, add_device and
\* remove_device, read_configuration_register and
\* write_configuration_register called on any bus of the tree with any
\* target return after finitely many calls, none of them on a bus a previous
\* one ran on.
C25_TraversalTerminates ==
    \A path \in BusPaths(rc.bus), bus \in BusSamples :
        LET entry == BusAt(rc.bus, path)
            t == Visited(entry, path, bus, MaxSteps)
        IN  /\ t.returned
            /\ \A i, j \in 1..Len(t.nodes) : t.nodes[i] = t.nodes[j] => i = j
            /\ \A i \in 1..Len(t.nodes) : t.nodes[i] \in BusPaths(rc.bus)
            /\ Len(t.nodes) <= Cardinality(BusPaths(rc.bus))
            /\ \A device \in {0, 2} :
                   Len(BusGuards(BusRead(entry, bus, device, 0, 1).guards))
                       = Len(t.nodes) - 1

C25_Witness ==
    /\ last.op = "bus_read" /\ last.path = << >> /\ last.bus = 2
    /\ last.val = None
    /\ HasBusAt(rc.bus, <<1, 1>>) /\ HasBusAt(rc.bus, <<1, 2>>)
    /\ HasBusAt(rc.bus, <<0>>)

\* C26: in every reachable state each child bus stored under key k has
\* number k < 256, each device stored under key d has number d < 32 and each
\* function stored under key f has number f < 8, whatever was added,
\* removed, read or written before: a node is never under another key than
\* its number.
C26_NodeIdentity ==
    \A path \in BusPaths(rc.bus) :
        LET node == BusAt(rc.bus, path)
        IN  /\ node.number = IF path = << >> THEN 0 ELSE path[Len(path)]
            /\ \A k \in DOMAIN node.buses :
                   k < MAX_BUS_NUMBER /\ node.buses[k].number = k
            /\ \A d \in DOMAIN node.devices :
                   /\ d < MAX_DEVICE_NUMBER /\ node.devices[d].number = d
                   /\ \A f \in DOMAIN node.devices[d].functions :
                          /\ f < MAX_FUNCTION_NUMBER
                          /\ node.devices[d].functions[f].number = f

C26_Witness ==
    /\ last.op = "add_device" /\ last.path = <<1>>
    /\ last.number = MAX_DEVICE_NUMBER
    /\ last.result = "InvalidPciDeviceNumber"
    /\ HasBusAt(rc.bus, <<1, 1>>)
    /\ ContainsKey(rc.bus.buses[1].devices, 2)
    /\ ContainsKey(rc.bus.devices[0].functions, 1)

\* The bus whose devices serve an access to `bus` entered at the bus at
\* `path` of `root`: the last bus the calls run on, if it has that number.
ResolvedAt(root, path, bus) ==
    LET t == Visited(BusAt(root, path), path, bus, MaxSteps)
        end == t.nodes[Len(t.nodes)]
    IN  IF BusAt(root, end).number = bus THEN Some(end) ELSE None

\* Entered at the bus at `entry` of `root`, a read of <<bus, device,
\* function>> is absent and a write to it changes nothing; entered at bus 0
\* through the ports, the read is 0xFFFFFFFF and the write changes nothing.
AbsentFrom(root, entry, bus, device, function) ==
    LET self == BusAt(root, entry)
        port == [bus |-> root,
                 config_address |-> Address(TRUE, bus, device, function, 1)]
    IN  /\ BusRead(self, bus, device, function, 1).val = None
        /\ BusWrite(self, bus, device, function, 1, 0, DataDword) = self
        /\ entry = << >> =>
               /\ Read(port, 4, 4).data = AllFF(4)
               /\ Write(port, 4, DataDword) = port

\* C27: after remove_device(d) on a bus, remove_function(f) on a device or
\* remove_bus(b) on a bus, every read that was served by the removed node
\* returns absent (0xFFFFFFFF at the data port) and every such write is a
\* no-op, until a node with that number is added again; removing a number
\* that is not present returns absent and changes nothing.
C27_RemovedIsAbsent ==
    /\ \A path \in BusPaths(rc.bus) :
           LET node == BusAt(rc.bus, path)
           IN  /\ \A d \in DOMAIN node.devices :
                      LET got == remove_device(node, d)
                          after == WithBusAt(rc.bus, path, got.self)
                          again == add_device(
                                       got.self,
                                       PciDevice_new_dummy_host_bridge(d)).self
                      IN  /\ got.removed = Some(node.devices[d])
                          /\ \A entry \in BusPaths(rc.bus), bus \in 0..2 :
                                 ResolvedAt(rc.bus, entry, bus) = Some(path)
                                     => AbsentFrom(after, entry, bus, d, 0)
                          /\ BusRead(again, node.number, d, 0, 1).val # None
               /\ \A b \in DOMAIN node.buses :
                      LET got == remove_bus(node, b)
                          after == WithBusAt(rc.bus, path, got.self)
                          again == add_bus(got.self, node.buses[b]).self
                      IN  /\ got.removed = Some(node.buses[b])
                          /\ \A entry \in BusPaths(after), bus \in 0..2 :
                                 ResolvedAt(rc.bus, entry, bus)
                                         = Some(Append(path, b))
                                     => \A d \in {0, 2} :
                                            AbsentFrom(after, entry, bus, d, 0)
                          /\ again = node
               /\ \A d \in DOMAIN node.devices :
                      \A f \in DOMAIN node.devices[d].functions :
                          LET got == remove_function(node.devices[d], f)
                              after ==
                                  WithBusAt(rc.bus, path,
                                      [node EXCEPT !.devices[d] = got.self])
                              again == add_function(
                                           got.self,
                                           node.devices[d].functions[f]).self
                          IN  /\ got.removed
                                     = Some(node.devices[d].functions[f])
                              /\ DeviceRead(got.self, f, 1).val = None
                              /\ DeviceWrite(got.self, f, 1, 0, DataDword)
                                     = got.self
                              /\ \A entry \in BusPaths(rc.bus), bus \in 0..2 :
                                     ResolvedAt(rc.bus, entry, bus) = Some(path)
                                         => AbsentFrom(after, entry, bus, d, f)
                              /\ again = node.devices[d]
               /\ \A n \in (0..5) \ DOMAIN node.buses :
                      remove_bus(node, n) = [self |-> node, removed |-> None]
               /\ \A n \in (0..5) \ DOMAIN node.devices :
                      remove_device(node, n)
                          = [self |-> node, removed |-> None]
               /\ \A d \in DOMAIN node.devices :
                      \A n \in (0..5) \ DOMAIN node.devices[d].functions :
                          remove_function(node.devices[d], n)
                              = [self |-> node.devices[d], removed |-> None]
    /\ last.op = "remove_bus" =>
           ~ContainsKey(BusAt(rc.bus, last.path).buses, last.number)
    /\ last.op = "remove_device" =>
           ~ContainsKey(BusAt(rc.bus, last.path).devices, last.number)
    /\ last.op = "remove_function" =>
           ~ContainsKey(rc.bus.devices[last.device].functions, last.number)

C27_Witness ==
    /\ last.op = "remove_bus" /\ last.path = << >> /\ last.number = 1
    /\ last.found
    /\ ~ContainsKey(rc.bus.buses, 1)
    /\ ContainsKey(rc.bus.buses, 0)
    /\ BusRead(rc.bus, 1, 2, 0, 1).val = None

\* A data port write that changed something changed one register: the one
\* config_address decodes to, in the function that serves it.
OneRegisterChanged ==
    LET a == parse_configuration_address(rc)
        served == ResolvedAt(rc.bus, << >>, a[1])
    IN  /\ Enabled(rc)
        /\ IsSome(BusRead(rc.bus, a[1], a[2], a[3], a[4]).val)
        /\ rc' = WithRegister(rc, <<served[1], a[2], a[3]>>, a[4],
                              read_configuration_space(rc').val)

\* C28: a data port write changes at most the register decoded from
\* config_address, and that only when enabled: every other register of that
\* function and of every other function, the bus, device and function
\* mappings and config_address are unchanged; a port read, of the address
\* or of the data port, changes no state at all.
C28_PortAccessFrame ==
    [][/\ last'.op = "read" => rc' = rc
       /\ (last'.op = "write" /\ last'.offset >= OFFSET_DATA) =>
              (rc' = rc \/ OneRegisterChanged)]_vars

C28_Witness ==
    /\ last.op = "write" /\ last.offset = 7 /\ last.data = DataBytes(3, 1)
    /\ rc.config_address = Address(TRUE, 0, 0, 0, 1)
    /\ BridgeWithDevice
    /\ HostBridge.configuration_space[1]
           = WithBytes(ALL_ONES, 3, DataBytes(3, 1))
    /\ Stored(rc.bus.buses[1], 2, 0, 1) = U(305419896)

\* Targets <<bus, device, function>> other than the host bridge.
OtherTargets ==
    (BusSamples \X {0, 1, MAX_DEVICE_NUMBER - 1}
                \X {0, 1, MAX_FUNCTION_NUMBER - 1}) \ {<<0, 0, 0>>}
\* The four bytes the data port returns with config_address set to a.
DataAt(self, a) == Read(Addressed(self, a), 4, 4).data

OwnAnswer(self, device, function, register) ==
    IF ContainsKey(self.devices, device)
    THEN DeviceRead(self.devices[device], function, register).val
    ELSE None

\* A bus numbered n with a dummy host bridge device in slot 5.
ShadowBus(n) ==
    add_device(PciBus_new(n), PciDevice_new_dummy_host_bridge(5)).self

\* C30: add_bus accepts a child whose number is the parent's own, or one
\* used elsewhere in the tree, wherever the parent has no child of that
\* number; an access entered at the parent with bus = parent.number is
\* served by the parent's own devices, so the devices of such a child are
\* neither read nor written through the parent.
C30_SameNumberShadowed ==
    /\ \A path \in BusPaths(rc.bus) :
           LET node == BusAt(rc.bus, path)
               shadow == add_bus(node, ShadowBus(node.number))
           IN  /\ \A n \in 0..2 :
                      ~ContainsKey(node.buses, n) =>
                          add_bus(node, NewBus(n)).result = "Ok"
               /\ shadow.result = "Ok" =>
                      /\ BusRead(shadow.self, node.number, 5, 0, 1).val
                             = OwnAnswer(node, 5, 0, 1)
                      /\ BusWrite(shadow.self, node.number, 5, 0, 1, 0,
                                  DataDword).buses = shadow.self.buses
               /\ ContainsKey(node.buses, node.number) =>
                      \A d \in {0, 2, 5} :
                          LET got == BusRead(node, node.number, d, 0, 1)
                          IN  /\ got.val = OwnAnswer(node, d, 0, 1)
                              /\ BusGuards(got.guards) = << >>
                              /\ BusWrite(node, node.number, d, 0, 1, 0,
                                          DataDword).buses = node.buses
    /\ (last.op = "bus_read" /\ last.bus = BusAt(rc.bus, last.path).number)
           => last.val = OwnAnswer(BusAt(rc.bus, last.path), last.device,
                                   last.function, last.register)

C30_Witness ==
    /\ last.op = "bus_read" /\ last.path = << >> /\ last.bus = 0
    /\ last.device = 2 /\ last.val = None
    /\ HasBusAt(rc.bus, <<0>>)
    /\ ContainsKey(rc.bus.buses[0].devices, 2)
    /\ HasBusAt(rc.bus, <<1, 1>>)

====
